---- MODULE Spec2Model ----
(***************************************************************************)
(* A model of src/main.py: the timestamp normaliser parse_weibo_time, the  *)
(* keyword pipeline process_keyword (fetch, time/media filter, scoring,    *)
(* label attachment, media download, table assembly, persistence) and the  *)
(* per-user collection loop of main.                                       *)
(*                                                                         *)
(* Text is a sequence of characters; a character is a one-element name.    *)
(* The CJK characters of the source are named by their pinyin:             *)
(*   分 "fen"  钟 "zhong"  前 "qian"  小 "xiao"  时 "shi"  今 "jin"        *)
(*   天 "tian" 昨 "zuo"    未 "wei"   知 "zhi"   间 "jian"                 *)
(***************************************************************************)
EXTENDS Integers, Sequences, FiniteSets, TLC

\* Python None (also pandas NaN for a missing cell is a value of its own, below)
None == [none |-> TRUE]

(***************************************************************************)
(* Python str primitives used by parse_weibo_time.                         *)
(***************************************************************************)
Whitespace == {" ", "\t", "\n"}

Digits == {"0", "1", "2", "3", "4", "5", "6", "7", "8", "9"}

DigitVal(c) ==
    CASE c = "0" -> 0 [] c = "1" -> 1 [] c = "2" -> 2 [] c = "3" -> 3
      [] c = "4" -> 4 [] c = "5" -> 5 [] c = "6" -> 6 [] c = "7" -> 7
      [] c = "8" -> 8 [] c = "9" -> 9

RECURSIVE LStrip(_)
LStrip(s) ==
    IF s # <<>> /\ Head(s) \in Whitespace THEN LStrip(Tail(s)) ELSE s

RECURSIVE RStrip(_)
RStrip(s) ==
    IF s # <<>> /\ s[Len(s)] \in Whitespace
    THEN RStrip(SubSeq(s, 1, Len(s) - 1))
    ELSE s

\* str.strip()
Strip(s) == RStrip(LStrip(s))

\* s.startswith(sub)
StartsWith(s, sub) ==
    /\ Len(sub) <= Len(s)
    /\ SubSeq(s, 1, Len(sub)) = sub

\* sub in s
Contains(s, sub) ==
    \E i \in 1..(Len(s) - Len(sub) + 1) : SubSeq(s, i, i + Len(sub) - 1) = sub

\* s.replace(sub, ''): every non-overlapping occurrence, left to right
RECURSIVE Remove(_, _)
Remove(s, sub) ==
    IF s = <<>> THEN <<>>
    ELSE IF StartsWith(s, sub) THEN Remove(SubSeq(s, Len(sub) + 1, Len(s)), sub)
    ELSE <<Head(s)>> \o Remove(Tail(s), sub)

AllDigits(s) == \A i \in 1..Len(s) : s[i] \in Digits

RECURSIVE DecValue(_)
DecValue(s) ==
    IF s = <<>> THEN 0
    ELSE 10 * DecValue(SubSeq(s, 1, Len(s) - 1)) + DigitVal(s[Len(s)])

\* int(s): surrounding whitespace is ignored, one optional sign, then
\* one or more decimal digits; anything else is a ValueError.
PyInt(s) ==
    LET t    == Strip(s)
        neg  == t # <<>> /\ Head(t) = "-"
        sgn  == t # <<>> /\ Head(t) \in {"-", "+"}
        body == IF sgn THEN Tail(t) ELSE t
    IN  IF body = <<>> \/ ~AllDigits(body)
        THEN [exc |-> TRUE, val |-> 0]
        ELSE [exc |-> FALSE,
              val |-> IF neg THEN 0 - DecValue(body) ELSE DecValue(body)]

(***************************************************************************)
(* datetime, timedelta and strptime.  An instant is a proleptic Gregorian  *)
(* ordinal day (0001-01-01 is day 1), a minute of that day and the part of *)
(* the minute below it (seconds; microseconds are folded into it).         *)
(***************************************************************************)
IsLeap(y) == (y % 4 = 0) /\ ((y % 100 # 0) \/ (y % 400 = 0))

DaysInMonth(y, m) ==
    CASE m \in {1, 3, 5, 7, 8, 10, 12} -> 31
      [] m \in {4, 6, 9, 11} -> 30
      [] m = 2 -> IF IsLeap(y) THEN 29 ELSE 28

RECURSIVE DaysBeforeMonth(_, _)
DaysBeforeMonth(y, m) ==
    IF m = 1 THEN 0 ELSE DaysBeforeMonth(y, m - 1) + DaysInMonth(y, m - 1)

DaysBeforeYear(y) ==
    365 * (y - 1) + ((y - 1) \div 4) - ((y - 1) \div 100) + ((y - 1) \div 400)

Ordinal(y, m, d) == DaysBeforeYear(y) + DaysBeforeMonth(y, m) + d

\* datetime.max is 9999-12-31, datetime.min is 0001-01-01 (ordinal 1)
MaxOrdinal == Ordinal(9999, 12, 31)

\* A datetime value given by its calendar fields.
Instant(dt) ==
    [day |-> Ordinal(dt.year, dt.month, dt.day),
     min |-> 60 * dt.hour + dt.minute,
     sec |-> dt.second]

\* dt - timedelta(minutes=n); outside datetime.min..datetime.max it is an OverflowError
MinusMinutes(i, n) ==
    LET total == i.min - n
        day   == i.day + (total \div 1440)
    IN  IF day < 1 \/ day > MaxOrdinal
        THEN [exc |-> TRUE, val |-> None]
        ELSE [exc |-> FALSE,
              val |-> [day |-> day, min |-> total % 1440, sec |-> i.sec]]

\* dt - timedelta(hours=n)
MinusHours(i, n) ==
    LET total == (i.min \div 60) - n
        day   == i.day + (total \div 24)
    IN  IF day < 1 \/ day > MaxOrdinal
        THEN [exc |-> TRUE, val |-> None]
        ELSE [exc |-> FALSE,
              val |-> [day |-> day,
                       min |-> 60 * (total % 24) + (i.min % 60),
                       sec |-> i.sec]]

\* a >= b on datetimes
Ge(a, b) ==
    \/ a.day > b.day
    \/ a.day = b.day /\ a.min > b.min
    \/ a.day = b.day /\ a.min = b.min /\ a.sec >= b.sec

\* Index of the first occurrence of character c in s, 0 when absent.
RECURSIVE IndexOf(_, _, _)
IndexOf(s, c, from) ==
    IF from > Len(s) THEN 0
    ELSE IF s[from] = c THEN from
    ELSE IndexOf(s, c, from + 1)

\* One or two digits (the strptime directives %m %d %H %M all accept both).
Num12(s) == Len(s) \in {1, 2} /\ AllDigits(s)

\* datetime.strptime(t, '%H:%M'): %H is 0..23, %M is 0..59, one or two
\* digits each, and the whole string has to match.
StrptimeHM(t) ==
    LET c  == IndexOf(t, ":", 1)
        hs == SubSeq(t, 1, c - 1)
        ms == SubSeq(t, c + 1, Len(t))
    IN  IF c = 0 \/ ~Num12(hs) \/ ~Num12(ms)
           \/ DecValue(hs) > 23 \/ DecValue(ms) > 59
        THEN [exc |-> TRUE, hour |-> 0, minute |-> 0]
        ELSE [exc |-> FALSE, hour |-> DecValue(hs), minute |-> DecValue(ms)]

\* Index of the first whitespace character of s at or after from, 0 if none.
RECURSIVE IndexOfWS(_, _)
IndexOfWS(s, from) ==
    IF from > Len(s) THEN 0
    ELSE IF s[from] \in Whitespace THEN from
    ELSE IndexOfWS(s, from + 1)

\* datetime.strptime(t, '%Y-%m-%d %H:%M'): four-digit year, month 1..12,
\* a day of that month (one or two digits, or a blank and one digit), one
\* or more whitespace characters, then %H:%M.
StrptimeYMDHM(t) ==
    LET d1   == IndexOf(t, "-", 1)
        d2   == IF d1 = 0 THEN 0 ELSE IndexOf(t, "-", d1 + 1)
        pad  == d2 # 0 /\ d2 < Len(t) /\ t[d2 + 1] = " "
        ds0  == IF pad THEN d2 + 2 ELSE d2 + 1
        sp   == IF d2 = 0 THEN 0 ELSE IndexOfWS(t, ds0)
        ys   == SubSeq(t, 1, d1 - 1)
        mos  == SubSeq(t, d1 + 1, d2 - 1)
        ds   == SubSeq(t, ds0, sp - 1)
        rest == LStrip(SubSeq(t, sp, Len(t)))
        hm   == StrptimeHM(rest)
        bad  == [exc |-> TRUE, val |-> None]
    IN  IF d1 = 0 \/ d2 = 0 \/ sp = 0 THEN bad
        ELSE IF Len(ys) # 4 \/ ~AllDigits(ys) \/ ~Num12(mos) \/ ~Num12(ds) THEN bad
        ELSE IF pad /\ (Len(ds) # 1 \/ ds = <<"0">>) THEN bad
        ELSE IF DecValue(ys) < 1 THEN bad
        ELSE IF DecValue(mos) \notin 1..12 THEN bad
        ELSE IF DecValue(ds) \notin 1..DaysInMonth(DecValue(ys), DecValue(mos)) THEN bad
        ELSE IF hm.exc THEN bad
        ELSE [exc |-> FALSE,
              val |-> [day |-> Ordinal(DecValue(ys), DecValue(mos), DecValue(ds)),
                       min |-> 60 * hm.hour + hm.minute,
                       sec |-> 0]]

\* str(now.year) as f"{now.year}" prints it: no zero padding
RECURSIVE DecString(_)
DecString(n) ==
    LET d == <<"0", "1", "2", "3", "4", "5", "6", "7", "8", "9">>[(n % 10) + 1]
    IN  IF n < 10 THEN <<d>> ELSE DecString(n \div 10) \o <<d>>

FenZhongQian == <<"fen", "zhong", "qian">>

XiaoShiQian == <<"xiao", "shi", "qian">>

JinTian == <<"jin", "tian">>

ZuoTian == <<"zuo", "tian">>

WeiZhiShiJian == <<"wei", "zhi", "shi", "jian">>

(***************************************************************************)
(* parse_weibo_time.  TryBranches is the body of the try block: exc says   *)
(* that a statement of it raised.                                          *)
(***************************************************************************)
Today(now_, hm) ==
    [day |-> Ordinal(now_.year, now_.month, now_.day),
     min |-> 60 * hm.hour + hm.minute,
     sec |-> 0]

TryBranches(s, now_) ==
    LET raise == [exc |-> TRUE, val |-> None]
    IN  IF Contains(s, FenZhongQian)
        THEN LET minutes == PyInt(Remove(s, FenZhongQian))
             IN  IF minutes.exc THEN raise
                 ELSE MinusMinutes(Instant(now_), minutes.val)
        ELSE IF Contains(s, XiaoShiQian)
        THEN LET hours == PyInt(Remove(s, XiaoShiQian))
             IN  IF hours.exc THEN raise
                 ELSE MinusHours(Instant(now_), hours.val)
        ELSE IF Contains(s, JinTian)
        THEN LET dt == StrptimeHM(Strip(Remove(s, JinTian)))
             IN  IF dt.exc THEN raise
                 ELSE [exc |-> FALSE, val |-> Today(now_, dt)]
        ELSE IF Contains(s, ZuoTian)
        THEN LET dt == StrptimeHM(Strip(Remove(s, ZuoTian)))
             IN  IF dt.exc THEN raise
                 ELSE MinusMinutes(Today(now_, dt), 1440)
        ELSE IF Contains(s, <<"-">>)
        THEN IF Len(s) = 11
             THEN StrptimeYMDHM(DecString(now_.year) \o <<"-">> \o s)
             ELSE IF Len(s) = 16
             THEN StrptimeYMDHM(s)
             ELSE [exc |-> FALSE, val |-> None]
        ELSE [exc |-> FALSE, val |-> None]

\* The function around its try block: r is what the try block did.  With
\* no except clause, what raises inside propagates to the caller.
Unguarded(s, r) ==
    IF s = <<>> \/ s = WeiZhiShiJian
    THEN [raised |-> FALSE, value |-> None]
    ELSE [raised |-> r.exc, value |-> r.val]

\* except Exception: pass, then return None
Guarded(s, r) ==
    IF s = <<>> \/ s = WeiZhiShiJian
    THEN [raised |-> FALSE, value |-> None]
    ELSE [raised |-> FALSE, value |-> IF r.exc THEN None ELSE r.val]

parse_weibo_time(time_str_, now_) ==
    Guarded(Strip(time_str_), TryBranches(Strip(time_str_), now_))

(***************************************************************************)
(* Inputs of a run: keywords.txt, user_urls.txt, the keyword/category      *)
(* table, the clock, and what the fetcher returns.                         *)
(***************************************************************************)
Keywords == <<"A", "B">>

UserUrls == <<"https://weibo.com/u/1", "https://weibo.com/u/2">>

\* "keyword and classification.txt": A is classified, B is not in the table
keyword_to_type == [k \in {"A"} |-> "tech"]

\* keyword_to_type.get(keyword, "unknown")
KeywordType(keyword) ==
    IF keyword \in DOMAIN keyword_to_type THEN keyword_to_type[keyword] ELSE "unknown"

\* datetime.now() as the run can read it
Nows ==
    { [year |-> 2024, month |-> 5, day |-> 23, hour |-> 12, minute |-> 0, second |-> 30],
      [year |-> 2024, month |-> 1, day |-> 1, hour |-> 0, minute |-> 10, second |-> 0] }

\* the run timestamp of the file names, strftime("%Y%m%d_%H%M%S")
RunStamp == "20240523_120030"

T5MinAgo == <<"5">> \o FenZhongQian

T48HoursAgo == <<"4", "8">> \o XiaoShiQian

TToday2359 == JinTian \o <<" ", "2", "3", ":", "5", "9">>

TMay20 == <<"0", "5", "-", "2", "0", " ", "1", "2", ":", "0", "0">>

\* The publish_time / has_images / has_videos a fetched post can carry.
PostKinds ==
    { [publish_time |-> T5MinAgo,      has_images |-> TRUE,  has_videos |-> FALSE],
      [publish_time |-> T5MinAgo,      has_images |-> FALSE, has_videos |-> FALSE],
      [publish_time |-> T48HoursAgo,   has_images |-> FALSE, has_videos |-> TRUE],
      [publish_time |-> TToday2359,    has_images |-> TRUE,  has_videos |-> FALSE],
      [publish_time |-> TMay20,        has_images |-> TRUE,  has_videos |-> TRUE],
      [publish_time |-> WeiZhiShiJian, has_images |-> TRUE,  has_videos |-> TRUE] }

\* Longest batch the fetcher returns to process_keyword in the model.
MaxBatch == 2

\* Most rows main accumulates in all_results in the model.
MaxRows == 4

\* The i-th post of a batch of search_keyword(keyword, ...): image_urls is
\* the '|'-separated field already split, 0 standing for the empty string.
\* The post carries a 'likes' field, the column line 284 sorts on.
KeywordPost(i, kind) ==
    [weibo_id        |-> i,
     user_name       |-> "author",
     content         |-> <<"a", "\n", " ", "b", " ">>,
     publish_time    |-> kind.publish_time,
     has_images      |-> kind.has_images,
     has_videos      |-> kind.has_videos,
     image_urls      |-> IF kind.has_images THEN <<i>> ELSE <<0>>,
     attitudes_count |-> 10 * (i % 2),
     likes           |-> 10 * (i % 2)]

KeywordBatches ==
    UNION { { [i \in 1..n |-> KeywordPost(i, ks[i])] : ks \in [1..n -> PostKinds] }
            : n \in 0..MaxBatch }

\* The i-th post of a page of search_keyword(user_url=..., keyword=...).
UserPost(i, att) ==
    [weibo_id        |-> i,
     user_name       |-> "author",
     content         |-> <<"a", "\n", " ", "b", " ">>,
     attitudes_count |-> att]

UserBatches ==
    UNION { { [i \in 1..n |-> UserPost(i, as[i])] : as \in [1..n -> {0, 1}] }
            : n \in 0..2 }

(***************************************************************************)
(* dict and pandas.DataFrame.  A dict is a record; its keys keep the order *)
(* they were inserted in, which for every dict of this program is the      *)
(* order of KeyOrder (fetcher, scorer, main's tags, label, media fields).  *)
(* A frame is its column list and its rows; a row is a record over the     *)
(* columns it has a value for, and a cell it has no value for is NaN.      *)
(***************************************************************************)
KeyOrder ==
    <<"weibo_id", "user_name", "content", "publish_time", "has_images",
      "has_videos", "image_urls", "attitudes_count", "likes", "content_score",
      "user_id", "keyword", "type", "image_paths", "image_base64",
      "image_count", "post_link">>

\* d[key] = value
SetKey(d, key, value) ==
    [k \in (DOMAIN d) \cup {key} |-> IF k = key THEN value ELSE d[k]]

RECURSIVE Filter(_, _)
Filter(seq, keep) ==
    IF seq = <<>> THEN <<>>
    ELSE (IF Head(seq) \in keep THEN <<Head(seq)>> ELSE <<>>) \o Filter(Tail(seq), keep)

Range(seq) == { seq[i] : i \in DOMAIN seq }

\* The columns of pd.DataFrame(list of dicts): keys in order of first
\* appearance over the rows.
RECURSIVE FrameColumns(_, _)
FrameColumns(dicts, seen) ==
    IF dicts = <<>> THEN seen
    ELSE FrameColumns(Tail(dicts),
                      seen \o Filter(KeyOrder, (DOMAIN Head(dicts)) \ Range(seen)))

\* pd.DataFrame(dicts)
DataFrame(dicts) == [columns |-> FrameColumns(dicts, <<>>), rows |-> dicts]

\* df[cols] / df.drop: keep the columns cols, in that order
Project(df, cols) ==
    [columns |-> cols,
     rows    |-> [i \in DOMAIN df.rows |->
                    [c \in Range(cols) \cap DOMAIN df.rows[i] |-> df.rows[i][c]]]]

\* re.sub(r'\s+', ' ', x): every run of whitespace becomes one blank
RECURSIVE CollapseWS(_)
CollapseWS(x) ==
    IF x = <<>> THEN <<>>
    ELSE IF Head(x) \in Whitespace
    THEN <<" ">> \o CollapseWS(LStrip(x))
    ELSE <<Head(x)>> \o CollapseWS(Tail(x))

\* f"https://weibo.com/detail/{x}" of the weibo_id cell of a row
PostLink(row) ==
    <<"https://weibo.com/detail/",
      IF "weibo_id" \in DOMAIN row THEN row.weibo_id ELSE 0 - 1>>

\* re.sub(r'\s+', ' ', str(x)).strip() of the content cell of a row
CleanContent(row) ==
    IF "content" \in DOMAIN row THEN Strip(CollapseWS(row.content))
    ELSE <<"n", "a", "n">>

columns_to_drop == {"user_id", "image_urls", "local_image_paths", "source"}

desired_columns ==
    <<"keyword", "user_name", "weibo_id", "content", "publish_time",
      "reposts_count", "comments_count", "attitudes_count", "post_link",
      "content_score">>

\* df.drop(columns=[col for col in columns_to_drop if col in df.columns])
DropColumns(df) ==
    Project(df, Filter(df.columns, Range(df.columns) \ columns_to_drop))

\* if 'post_link' not in df.columns and 'weibo_id' in df.columns
AddPostLink(df) ==
    IF "post_link" \notin Range(df.columns) /\ "weibo_id" \in Range(df.columns)
    THEN [columns |-> df.columns \o <<"post_link">>,
          rows    |-> [i \in DOMAIN df.rows |->
                         SetKey(df.rows[i], "post_link", PostLink(df.rows[i]))]]
    ELSE df

\* if 'content' in df.columns
CleanContentColumn(df) ==
    IF "content" \in Range(df.columns)
    THEN [df EXCEPT !.rows =
            [i \in DOMAIN df.rows |->
               SetKey(df.rows[i], "content", CleanContent(df.rows[i]))]]
    ELSE df

\* df[existing_columns]
Reorder(df) == Project(df, Filter(desired_columns, Range(df.columns)))

\* clean_and_reorder_dataframe; none of its statements raises on a frame
\* built from a list of dicts, so its except branch is not taken.
clean_and_reorder_dataframe(df) ==
    Reorder(CleanContentColumn(AddPostLink(DropColumns(df))))

\* Insert row after position p of seq.
InsertAt(seq, p, row) ==
    SubSeq(seq, 1, p) \o <<row>> \o SubSeq(seq, p + 1, Len(seq))

\* Row a has to come before row b in a descending sort on by (NaN last).
KeyAbove(a, b, by) ==
    by \in DOMAIN a /\ (by \notin DOMAIN b \/ a[by] > b[by])

\* The orders df.sort_values(by=by, ascending=False) can leave the rows in.
\* The default kind is 'quicksort', which is not stable: rows that tie on
\* the key can come out in any order.  Each row is inserted anywhere within
\* the run of its ties.
RECURSIVE SortOrders(_, _)
SortOrders(rows, by) ==
    IF rows = <<>> THEN {<<>>}
    ELSE LET n    == Len(rows)
             last == rows[n]
         IN  UNION { { InsertAt(o, p, last) :
                         p \in { q \in 0..(n - 1) :
                                   /\ \A j \in 1..q : ~KeyAbove(last, o[j], by)
                                   /\ \A j \in (q + 1)..(n - 1) : ~KeyAbove(o[j], last, by) } }
                     : o \in SortOrders(SubSeq(rows, 1, n - 1), by) }

\* df.sort_values(by=by, ascending=False): KeyError when by is no column
sort_values(df, by) ==
    IF by \notin Range(df.columns)
    THEN { [exc |-> TRUE, df |-> df] }
    ELSE { [exc |-> FALSE, df |-> [df EXCEPT !.rows = o]] : o \in SortOrders(df.rows, by) }

(***************************************************************************)
(* process_keyword.  A unit is what one call did and left behind.          *)
(***************************************************************************)
Base ==
    [search_flags               |-> {},
     collaborator_raised        |-> FALSE,
     results                    |-> <<>>,
     now_dt                     |-> None,
     filtered_by_time_and_media |-> <<>>,
     scorer_called              |-> FALSE,
     forwarded                  |-> <<>>,
     scorer_returned            |-> None,
     analysis_result            |-> None,
     media_calls                |-> {},
     df                         |-> None,
     written                    |-> {},
     json                       |-> None,
     csv                        |-> None,
     logged                     |-> {},
     returned                   |-> None]

\* except Exception as e: logging.error(...); return None
Except(u) == [u EXCEPT !.logged = @ \cup {"error"}, !.returned = None]

\* The spider or the analyzer raised, and the except clause took it.
Raised(u) == Except([u EXCEPT !.collaborator_raised = TRUE])

\* logging.warning(...); return None
Warn(u) == [u EXCEPT !.logged = @ \cup {"warning"}, !.returned = None]

\* The test of the filter loop on the parsed time dt:
\* dt and dt >= two_days_ago and (has_img or has_vid)
Passes(weibo, dt, two_days_ago) ==
    /\ dt # None
    /\ Ge(dt, two_days_ago)
    /\ (weibo.has_images \/ weibo.has_videos)

\* The filter with the media test left out.
KeepPostAnyMedia(weibo, now_dt) ==
    Passes([weibo EXCEPT !.has_images = TRUE],
           parse_weibo_time(weibo.publish_time, now_dt).value,
           MinusMinutes(Instant(now_dt), 2 * 1440).val)

KeepPost(weibo, now_dt) ==
    Passes(weibo,
           parse_weibo_time(weibo.publish_time, now_dt).value,
           MinusMinutes(Instant(now_dt), 2 * 1440).val)

\* The filter loop over results; exc when parse_weibo_time raised.
FilterByTimeAndMedia(results, now_dt) ==
    [exc  |-> \E i \in DOMAIN results :
                 parse_weibo_time(results[i].publish_time, now_dt).raised,
     kept |-> Filter(results, { w \in Range(results) : KeepPost(w, now_dt) })]

\* What ml_analyzer.analyze_weibos can answer for the posts it is given: it
\* raises, returns nothing, returns a dict without "filtered_weibos", or
\* returns a subsequence of the posts, scored, with the trending topics.
RECURSIVE SubSeqs(_)
SubSeqs(seq) ==
    IF seq = <<>> THEN {<<>>}
    ELSE LET rest == SubSeqs(Tail(seq))
         IN  rest \cup { <<Head(seq)>> \o r : r \in rest }

Topics == <<[keyword |-> "topic", score |-> 7, weibo_count |-> 1]>>

Scored(posts) == [i \in DOMAIN posts |-> SetKey(posts[i], "content_score", 90)]

ScorerOutcomes(posts) ==
    {[kind |-> "raise"],
     [kind |-> "value", value |-> None],
     [kind |-> "value", value |-> [trending_topics |-> Topics]]}
    \cup { [kind  |-> "value",
            value |-> [filtered_weibos |-> Scored(sub), trending_topics |-> Topics]]
           : sub \in SubSeqs(posts) }

\* if not analysis_result or "filtered_weibos" not in analysis_result
NoValidResult(analysis_result) ==
    \/ analysis_result = None
    \/ "filtered_weibos" \notin DOMAIN analysis_result

\* The posts of a list that download_filtered_media asks the spider about.
ImageIds(posts) ==
    { posts[i].weibo_id : i \in { j \in DOMAIN posts : posts[j].has_images } }

\* download_filtered_media over the spider's answers dl (weibo_id -> "path",
\* "null" or "raise"): the posts with image_paths set, the download_media
\* calls made, and whether a call raised (the loop stops there).
RECURSIVE DownloadLoop(_, _, _, _)
DownloadLoop(posts, i, dl, calls) ==
    IF i > Len(posts) THEN [exc |-> FALSE, posts |-> posts, calls |-> calls]
    ELSE LET weibo == posts[i]
             urls  == Filter(weibo.image_urls, Range(weibo.image_urls) \ {0})
             asked == calls \cup { [url |-> urls[k], weibo_id |-> weibo.weibo_id]
                                   : k \in DOMAIN urls }
         IN  IF ~weibo.has_images THEN DownloadLoop(posts, i + 1, dl, calls)
             ELSE IF urls # <<>> /\ dl[weibo.weibo_id] = "raise"
             THEN [exc   |-> TRUE,
                   posts |-> posts,
                   calls |-> calls \cup {[url |-> urls[1], weibo_id |-> weibo.weibo_id]}]
             ELSE DownloadLoop(
                      [posts EXCEPT ![i] =
                          SetKey(weibo, "image_paths",
                                 IF dl[weibo.weibo_id] = "path" THEN urls ELSE <<>>)],
                      i + 1, dl, asked)

\* The download run over the fetched batch instead of the retained posts.
download_media_of_results(u, filtered_weibos, dl) ==
    DownloadLoop(u.results, 1, [w \in ImageIds(u.results) |-> "path"], {})

download_filtered_media(u, filtered_weibos, dl) ==
    DownloadLoop(filtered_weibos, 1, dl, {})

\* add_image_data_to_weibos: enc says whether the local files can be read
\* and encoded; image_base64 is the list of encoded images.
add_image_data_to_weibos(weibos, enc) ==
    [i \in DOMAIN weibos |->
        LET paths == IF "image_paths" \in DOMAIN weibos[i]
                     THEN weibos[i].image_paths ELSE <<>>
            b64   == IF enc THEN paths ELSE <<>>
        IN  SetKey(SetKey(weibos[i], "image_base64", b64), "image_count", Len(b64))]

CsvName(keyword) == <<keyword, "_", RunStamp, ".csv">>

JsonName(keyword) == <<keyword, "_analysis_", RunStamp, ".json">>

\* Lines 284-301: sort by 'likes', write both files, return the posts.
\* filtered_results and analysis_result["filtered_weibos"] are one list.
\* The topics logged after the write (lines 296-299) are well formed.
SortAndWrite(u, keyword) ==
    { IF s.exc THEN Except(u)
      ELSE [u EXCEPT !.csv      = s.df,
                     !.json     = u.analysis_result,
                     !.written  = {CsvName(keyword), JsonName(keyword)},
                     !.returned = [posts |-> u.analysis_result.filtered_weibos]]
      : s \in sort_values(u.df, "likes") }

\* Lines 276-282: the frame of the retained posts, cleaned and reordered.
SaveResults(u, keyword) ==
    SortAndWrite(
        [u EXCEPT !.df = clean_and_reorder_dataframe(
                             DataFrame(u.analysis_result.filtered_weibos))],
        keyword)

\* Lines 270-274 after the download d: the encoded images are added.
Downloaded(u, d, keyword, enc) ==
    IF d.exc
    THEN {Raised([u EXCEPT !.analysis_result.filtered_weibos = d.posts,
                           !.media_calls = d.calls])}
    ELSE SaveResults(
             [u EXCEPT !.analysis_result.filtered_weibos =
                           add_image_data_to_weibos(d.posts, enc),
                       !.media_calls = d.calls],
             keyword)

\* Lines 264-274: if config["download_media"]
Labelled(u, keyword, download_media, dl, enc) ==
    IF ~download_media THEN SaveResults(u, keyword)
    ELSE Downloaded(u,
                    download_filtered_media(u, u.analysis_result.filtered_weibos, dl),
                    keyword, enc)

\* Lines 260-262: weibo['type'] = keyword_type on every retained post
AttachType(filtered_results, keyword_type) ==
    [i \in DOMAIN filtered_results |-> SetKey(filtered_results[i], "type", keyword_type)]

\* Lines 253-262, from the scorer's answer on.
Analyzed(u, keyword, download_media, scorer, dl, enc) ==
    IF scorer.kind = "raise" THEN {Raised(u)}
    ELSE IF NoValidResult(scorer.value)
    THEN {Warn([u EXCEPT !.scorer_returned = scorer.value,
                         !.analysis_result = scorer.value])}
    ELSE Labelled(
             [u EXCEPT !.scorer_returned = scorer.value,
                       !.analysis_result =
                           [scorer.value EXCEPT !.filtered_weibos =
                               AttachType(@, KeywordType(keyword))]],
             keyword, download_media, dl, enc)

\* Lines 237-251, from the filtered list f on.
Filtered(u, f, keyword, download_media, scorer, dl, enc) ==
    IF f.exc THEN {Except(u)}
    ELSE IF f.kept = <<>>
    THEN {Warn([u EXCEPT !.filtered_by_time_and_media = f.kept])}
    ELSE Analyzed([u EXCEPT !.filtered_by_time_and_media = f.kept,
                            !.scorer_called = TRUE,
                            !.forwarded = f.kept],
                  keyword, download_media, scorer, dl, enc)

\* Lines 221-236, from the spider's answer on.
Searched(u, keyword, download_media, fetch, now_dt, scorer, dl, enc) ==
    IF fetch.exc THEN {Raised(u)}
    ELSE IF fetch.results = <<>> THEN {Warn(u)}
    ELSE Filtered([u EXCEPT !.results = fetch.results, !.now_dt = now_dt],
                  FilterByTimeAndMedia(fetch.results, now_dt),
                  keyword, download_media, scorer, dl, enc)

\* The download_media argument of the search of process_keyword.
KeywordSearchFlag(cfg) == FALSE

\* process_keyword(keyword, spider, ml_analyzer, config, now, keyword_to_type):
\* fetch is the spider's answer, now_dt the clock, scorer the analyzer's
\* answer, dl and enc those of the media download and the encoder.  Without
\* "start_page" in the configuration the search is never made (KeyError).
process_keyword(keyword, cfg, fetch, now_dt, scorer, dl, enc) ==
    IF ~cfg.has_start_page THEN {Except(Base)}
    ELSE Searched([Base EXCEPT !.search_flags = {KeywordSearchFlag(cfg)}],
                  keyword, cfg.download_media, fetch, now_dt, scorer, dl, enc)

(***************************************************************************)
(* The state.  mode says which entry point runs: parse_weibo_time on one   *)
(* string, process_keyword called for each keyword in turn, or main.       *)
(***************************************************************************)
VARIABLES
    mode,         \* "parse", "keyword" or "user"
    pc,           \* position of the entry point
    config,       \* load_config(): download_media, and whether start_page is set
    time_str,     \* parse mode: the argument time_str
    now,          \* parse mode: the argument now
    parsed,       \* parse mode: what parse_weibo_time did
    kw_idx,       \* index into Keywords of the current keyword
    unit,         \* keyword mode: the call of process_keyword in progress
    outcomes,     \* keyword mode: what the calls so far returned
    files,        \* the files written under results/
    user_idx,     \* user mode: i of the enumerate over user_urls
    user_id,      \* user mode: user_id of the current user
    all_results,  \* user mode: all_results
    run           \* user mode: what main did and left behind

vars ==
    <<mode, pc, config, time_str, now, parsed, kw_idx, unit, outcomes, files,
      user_idx, user_id, all_results, run>>

D11(a, b, c, d) == <<a, b, "-", c, d, " ", "1", "2", ":", "0", "0">>

D16(m1, m2, d1, d2) ==
    <<"2", "0", "2", "4", "-", m1, m2, "-", d1, d2, " ", "1", "2", ":", "3", "4">>

\* The publish_time strings parse_weibo_time is run on.
TimeStrings ==
    { <<>>, <<" ">>, WeiZhiShiJian, <<" ">> \o WeiZhiShiJian \o <<" ">>,
      <<"x", "y">>, <<"1", "2", ":", "3", "4">>, <<"N", "o", "n", "e">>,
      T5MinAgo, T48HoursAgo, TToday2359, TMay20,
      <<" ", "3", "0", " ">> \o FenZhongQian \o <<" ">>,
      <<"-", "5">> \o FenZhongQian,
      <<"+", "5">> \o FenZhongQian,
      <<"x">> \o FenZhongQian,
      FenZhongQian,
      <<"5">> \o FenZhongQian \o <<"5">>,
      JinTian \o <<"5">> \o FenZhongQian,
      <<"9", "9", "9", "9", "9", "9", "9", "9", "9">> \o FenZhongQian,
      <<"9", "9", "9", "9", "9", "9", "9", "9", "9">> \o XiaoShiQian,
      <<"1">> \o XiaoShiQian,
      <<"1", ".", "5">> \o XiaoShiQian,
      ZuoTian \o XiaoShiQian,
      JinTian \o <<"0", "0", ":", "0", "5">>,
      JinTian \o <<" ", "9", ":", "5">>,
      JinTian \o <<" ", "2", "4", ":", "0", "0">>,
      JinTian \o <<" ", "1", "2", ":", "6", "0">>,
      JinTian \o <<" ", "1", "2", "3", "4">>,
      JinTian,
      JinTian \o ZuoTian \o <<" ", "1", "2", ":", "3", "4">>,
      ZuoTian \o <<" ", "2", "3", ":", "5", "9">>,
      ZuoTian \o <<" ", "1", "2", ":", "3", "4", ":", "5", "6">>,
      ZuoTian \o <<"-">>,
      D11("0", "5", "2", "3"), D11("1", "2", "3", "1"), D11("0", "2", "2", "9"),
      D11("0", "2", "3", "0"), D11("1", "3", "0", "1"), D11("0", "0", "1", "0"),
      D11("x", "5", "2", "3"),
      <<"5", "-", "2", "0", " ", " ", "1", "2", ":", "0", "0">>,
      D16("0", "5", "2", "3"), D16("0", "2", "3", "0"), D16("1", "3", "0", "1"),
      D16("0", "5", " ", "5"), D16("0", "5", " ", "0"),
      <<"2", "0", "2", "3", "-", "0", "2", "-", "2", "9", " ", "1", "2", ":", "3", "4">>,
      <<"2", "0", "2", "4", "-", "0", "5", "-", "2", "3", "T", "1", "2", ":", "3", "4">>,
      <<"2", "4", "-", "0", "5", "-", "2", "3", " ", "1", "2", ":", "3", "4">>,
      <<"2", "0", "2", "4", "-", "0", "5", "-", "2", "3">>,
      <<"2", "0", "2", "4", "-", "0", "5", "-", "2", "3", " ", "1", "2", ":", "3", "4", ":", "5", "6">>,
      <<"-">> }

NoRun == [search_flags |-> {}, units |-> <<>>, logged |-> {}, df_all |-> None, csv |-> None]

Init ==
    /\ mode \in {"parse", "keyword", "user"}
    /\ pc = "start"
    /\ config \in [download_media : BOOLEAN, has_start_page : BOOLEAN]
    /\ mode # "keyword" => config.has_start_page
    /\ mode = "parse" => ~config.download_media
    /\ time_str \in IF mode = "parse" THEN TimeStrings ELSE {<<>>}
    /\ now \in IF mode = "parse" THEN Nows
               ELSE {[year |-> 2024, month |-> 5, day |-> 23,
                      hour |-> 12, minute |-> 0, second |-> 30]}
    /\ parsed = [raised |-> FALSE, value |-> None]
    /\ kw_idx = 1
    /\ unit = Base
    /\ outcomes = <<>>
    /\ files = {}
    /\ user_idx = 1
    /\ user_id = <<>>
    /\ all_results = <<>>
    /\ run = NoRun

\* parse_weibo_time(time_str, now)
Parse ==
    /\ mode = "parse" /\ pc = "start"
    /\ parsed' = parse_weibo_time(time_str, now)
    /\ pc' = "parsed"
    /\ UNCHANGED <<mode, config, time_str, now, kw_idx, unit, outcomes, files,
                   user_idx, user_id, all_results, run>>

FetchOutcomes ==
    {[exc |-> TRUE, results |-> <<>>]}
    \cup { [exc |-> FALSE, results |-> b] : b \in KeywordBatches }

\* The posts whose images the call asks the spider for, given the scorer's answer.
Retained(scorer) ==
    IF scorer.kind = "raise" \/ NoValidResult(scorer.value) THEN <<>>
    ELSE scorer.value.filtered_weibos

\* One call process_keyword(Keywords[kw_idx], ...), start to return.
ProcessKeyword ==
    /\ mode = "keyword" /\ pc \in {"start", "call"}
    /\ \E fetch \in FetchOutcomes, now_dt \in Nows :
         LET f == FilterByTimeAndMedia(fetch.results, now_dt).kept
         IN  \E scorer \in IF f = <<>> THEN {[kind |-> "raise"]} ELSE ScorerOutcomes(f) :
               LET ids == IF config.download_media THEN ImageIds(Retained(scorer)) ELSE {}
               IN  \E dl \in [ids -> {"path", "null", "raise"}] :
                   \E enc \in IF \E w \in ids : dl[w] = "path" THEN BOOLEAN ELSE {FALSE} :
                   \E u \in process_keyword(Keywords[kw_idx], config, fetch, now_dt,
                                            scorer, dl, enc) :
                      /\ unit' = u
                      /\ files' = files \cup u.written
    /\ pc' = "ret"
    /\ UNCHANGED <<mode, config, time_str, now, parsed, kw_idx, outcomes,
                   user_idx, user_id, all_results, run>>

\* The caller takes the return value and goes on to the next keyword.
Return ==
    /\ mode = "keyword" /\ pc = "ret"
    /\ outcomes' = Append(outcomes, unit.returned)
    /\ unit' = Base
    /\ kw_idx' = kw_idx + 1
    /\ pc' = IF kw_idx < Len(Keywords) THEN "call" ELSE "done"
    /\ UNCHANGED <<mode, config, time_str, now, parsed, files,
                   user_idx, user_id, all_results, run>>

(***************************************************************************)
(* main: the loop over the users and, for each, over the keywords; then    *)
(* the aggregated table.                                                   *)
(***************************************************************************)
AllName == <<"all_results_", RunStamp, ".csv">>

\* The download_media argument of the search of main's loop.
UserSearchFlag(cfg) == cfg.download_media

\* Lines 427-429: the next user_url; spider._extract_user_id(user_url)
\* answers an identifier or nothing, or raises, outside any try block.
MainUser ==
    /\ mode = "user" /\ pc \in {"start", "user"}
    /\ \E answer \in {"id", "null", "raise"} :
         IF answer = "raise"
         THEN /\ pc' = "crashed"
              /\ UNCHANGED <<user_id, kw_idx>>
         ELSE /\ user_id' = IF answer = "id" THEN <<"uid", user_idx>>
                            ELSE <<"user_", user_idx>>
              /\ kw_idx' = 1
              /\ pc' = "pair"
    /\ UNCHANGED <<mode, config, time_str, now, parsed, unit, outcomes, files,
                   user_idx, all_results, run>>

\* for result in results: result['user_id'] = user_id; result['keyword'] = keyword
Tagged(results, uid, keyword) ==
    [i \in DOMAIN results |-> SetKey(SetKey(results[i], "user_id", uid), "keyword", keyword)]

\* Lines 432-455: one (user, keyword) pair; the spider raises or answers a page.
MainPair ==
    /\ mode = "user" /\ pc = "pair"
    /\ \E fetch \in {[exc |-> TRUE, results |-> <<>>]}
                    \cup { [exc |-> FALSE, results |-> b] : b \in UserBatches } :
         /\ Len(all_results) + Len(fetch.results) <= MaxRows
         /\ all_results' = all_results
                           \o Tagged(fetch.results, user_id, Keywords[kw_idx])
         /\ run' = [run EXCEPT
                      !.search_flags = @ \cup {UserSearchFlag(config)},
                      !.units = Append(@, [user   |-> user_idx,
                                           kw     |-> kw_idx,
                                           failed |-> fetch.exc,
                                           added  |-> Len(fetch.results)]),
                      !.logged = IF fetch.exc THEN @ \cup {"error"} ELSE @]
    /\ IF kw_idx < Len(Keywords)
       THEN /\ kw_idx' = kw_idx + 1
            /\ pc' = "pair"
            /\ UNCHANGED user_idx
       ELSE /\ kw_idx' = 1
            /\ user_idx' = user_idx + 1
            /\ pc' = IF user_idx < Len(UserUrls) THEN "user" ELSE "save"
    /\ UNCHANGED <<mode, config, time_str, now, parsed, unit, outcomes, files, user_id>>

\* Lines 458-515: the aggregated table, cleaned, sorted and written.  The
\* gallery step that follows the write (lines 475-511) changes none of the
\* state kept here and its errors are caught.
MainSave ==
    /\ mode = "user" /\ pc = "save"
    /\ IF all_results = <<>>
       THEN /\ run' = [run EXCEPT !.logged = @ \cup {"warning"}]
            /\ UNCHANGED files
       ELSE LET df_all == clean_and_reorder_dataframe(DataFrame(all_results))
            IN  \E s \in sort_values(df_all, "attitudes_count") :
                  IF s.exc
                  THEN /\ run' = [run EXCEPT !.df_all = df_all,
                                             !.logged = @ \cup {"error"}]
                       /\ UNCHANGED files
                  ELSE /\ run' = [run EXCEPT !.df_all = df_all, !.csv = s.df]
                       /\ files' = files \cup {AllName}
    /\ pc' = "done"
    /\ UNCHANGED <<mode, config, time_str, now, parsed, kw_idx, unit, outcomes,
                   user_idx, user_id, all_results>>

Next ==
    \/ Parse
    \/ ProcessKeyword
    \/ Return
    \/ MainUser
    \/ MainPair
    \/ MainSave

Spec == Init /\ [][Next]_vars

(***************************************************************************)
(* Properties.                                                             *)
(***************************************************************************)
KeywordUnitDone == mode = "keyword" /\ pc = "ret"

\* The scorer answered with a dict that has "filtered_weibos".
ScorerAnswered ==
    /\ unit.scorer_returned # None
    /\ "filtered_weibos" \in DOMAIN unit.scorer_returned

NormalizedTime(weibo) == parse_weibo_time(weibo.publish_time, unit.now_dt).value

\* C1: an error raised while handling one unit (a keyword of
\* process_keyword, a user or a (user, keyword) pair of main, the spider's
\* failure to resolve the user identifier included) is caught, the unit
\* contributes no results and every later unit is still processed: the run
\* is never ended by such an error.
C1_UnitErrorNeverEndsRun ==
    /\ pc # "crashed"
    /\ (mode = "user" /\ pc \in {"save", "done"}) =>
          /\ Len(run.units) = Len(UserUrls) * Len(Keywords)
          /\ \A i \in DOMAIN run.units : run.units[i].failed => run.units[i].added = 0
    /\ (mode = "keyword" /\ pc = "done") => Len(outcomes) = Len(Keywords)
    /\ (KeywordUnitDone /\ "error" \in unit.logged) => unit.returned = None

\* C2: when the fetcher returns posts, at least one passes the time/media
\* filter, the scorer returns a non-empty filtered subset and no
\* collaborator raises, process_keyword writes {keyword}_{stamp}.csv and
\* {keyword}_analysis_{stamp}.json and returns the retained posts.
C2_BothArtifactsWritten ==
    ( /\ KeywordUnitDone
      /\ unit.results # <<>>
      /\ unit.filtered_by_time_and_media # <<>>
      /\ ScorerAnswered
      /\ unit.scorer_returned.filtered_weibos # <<>>
      /\ ~unit.collaborator_raised )
    => /\ unit.written = {CsvName(Keywords[kw_idx]), JsonName(Keywords[kw_idx])}
       /\ unit.written \subseteq files
       /\ unit.returned # None

\* C3: when the scorer's filtered subset is present and empty, the unit
\* writes neither file, logs a warning and no error, and returns None.
C3_EmptySubsetWarnsOnly ==
    ( /\ KeywordUnitDone
      /\ ScorerAnswered
      /\ unit.scorer_returned.filtered_weibos = <<>> )
    => /\ unit.written = {}
       /\ "warning" \in unit.logged
       /\ "error" \notin unit.logged
       /\ unit.returned = None

\* C4: the list forwarded to the scorer is a subsequence of the fetched
\* batch in its order, holds no post whose normalized time is None and no
\* post without image and video; an empty filtered list is never forwarded.
C4_ForwardedIsFilteredSubsequence ==
    KeywordUnitDone =>
        /\ unit.scorer_called =>
              /\ unit.forwarded # <<>>
              /\ unit.forwarded = unit.filtered_by_time_and_media
              /\ unit.forwarded \in SubSeqs(unit.results)
              /\ \A i \in DOMAIN unit.forwarded :
                    /\ NormalizedTime(unit.forwarded[i]) # None
                    /\ unit.forwarded[i].has_images \/ unit.forwarded[i].has_videos
        /\ unit.filtered_by_time_and_media = <<>> => ~unit.scorer_called

\* Of a batch of two posts only the second is forwarded to the scorer.
C4_Witness ==
    /\ KeywordUnitDone
    /\ unit.scorer_called
    /\ Len(unit.forwarded) = 1
    /\ Len(unit.results) = 2
    /\ unit.forwarded[1] = unit.results[2]

\* C5: every post the time/media filter retains has a normalized time t
\* with reference - 48h <= t <= reference.
C5_RetainedWithinWindow ==
    KeywordUnitDone =>
        \A i \in DOMAIN unit.filtered_by_time_and_media :
            LET t == NormalizedTime(unit.filtered_by_time_and_media[i])
            IN  /\ t # None
                /\ Ge(t, MinusMinutes(Instant(unit.now_dt), 2 * 1440).val)
                /\ Ge(Instant(unit.now_dt), t)

\* C6: every retained post carries the category of its keyword in the
\* assembled table, whose first column is the category column.
C6_CategoryIsFirstColumn ==
    (KeywordUnitDone /\ unit.df # None /\ unit.df.rows # <<>>) =>
        /\ unit.df.columns # <<>>
        /\ unit.df.columns[1] = "type"
        /\ \A i \in DOMAIN unit.df.rows :
              /\ "type" \in DOMAIN unit.df.rows[i]
              /\ unit.df.rows[i].type = KeywordType(Keywords[kw_idx])

\* Number of rows of sorted that row has to stay behind in a stable sort.
Behind(sorted, row, by) ==
    Cardinality({ j \in DOMAIN sorted : ~KeyAbove(row, sorted[j], by) })

RECURSIVE StableSortDesc(_, _)
StableSortDesc(rows, by) ==
    IF rows = <<>> THEN <<>>
    ELSE LET sorted == StableSortDesc(SubSeq(rows, 1, Len(rows) - 1), by)
         IN  InsertAt(sorted, Behind(sorted, rows[Len(rows)], by), rows[Len(rows)])

\* C7: the table written is the stable descending sort of the assembled
\* rows on the engagement counter: 'likes' for a keyword run,
\* 'attitudes_count' for the aggregated run.
C7_SortIsStableDescending ==
    /\ (mode = "user" /\ pc = "done" /\ run.csv # None) =>
          run.csv.rows = StableSortDesc(run.df_all.rows, "attitudes_count")
    /\ (KeywordUnitDone /\ unit.csv # None) =>
          unit.csv.rows = StableSortDesc(unit.df.rows, "likes")

\* The media calls of a keyword unit are for posts of the scorer's subset,
\* and its search is made with media download off.
KeywordMediaOnlyForRetained ==
    KeywordUnitDone =>
        /\ unit.search_flags \subseteq {FALSE}
        /\ unit.media_calls # {} => ScorerAnswered
        /\ \A c \in unit.media_calls :
              c.weibo_id \in ImageIds(unit.scorer_returned.filtered_weibos)

\* C8 as stated: media is fetched only for posts retained after quality
\* filtering, and in no mode is a search made with media download on.
C8_NoModeDownloadsUnfiltered ==
    /\ KeywordMediaOnlyForRetained
    /\ mode = "user" => run.search_flags \subseteq {FALSE}

\* C8 amended: in keyword mode the search is made with media download off
\* and download_media is called only for posts of the scorer's filtered
\* subset; main's search carries the configured download_media flag.
C8_KeywordModeDownloadsRetainedOnly ==
    /\ KeywordMediaOnlyForRetained
    /\ mode = "user" => run.search_flags \subseteq {config.download_media}

\* A keyword unit asked for media, and the scorer had dropped a post.
C8_Witness ==
    /\ KeywordUnitDone
    /\ unit.media_calls # {}
    /\ Len(unit.scorer_returned.filtered_weibos) < Len(unit.results)
    /\ ImageIds(unit.results) # ImageIds(unit.scorer_returned.filtered_weibos)

\* C9: the analysis result is not changed between the scorer's return and
\* its persistence, and the JSON written equals what the scorer returned.
C9_AnalysisResultUnchanged ==
    KeywordUnitDone =>
        /\ unit.analysis_result = unit.scorer_returned
        /\ unit.json # None => unit.json = unit.scorer_returned

\* The six patterns of parse_weibo_time, by their marker.
Recognized(s) ==
    \/ Contains(s, FenZhongQian)
    \/ Contains(s, XiaoShiQian)
    \/ Contains(s, JinTian)
    \/ Contains(s, ZuoTian)
    \/ Contains(s, <<"-">>) /\ Len(s) \in {11, 16}

\* The numeric part of the pattern that s is taken for does not parse.
NumericPartFails(s) ==
    IF Contains(s, FenZhongQian) THEN PyInt(Remove(s, FenZhongQian)).exc
    ELSE IF Contains(s, XiaoShiQian) THEN PyInt(Remove(s, XiaoShiQian)).exc
    ELSE IF Contains(s, JinTian) THEN StrptimeHM(Strip(Remove(s, JinTian))).exc
    ELSE IF Contains(s, ZuoTian) THEN StrptimeHM(Strip(Remove(s, ZuoTian))).exc
    ELSE IF Contains(s, <<"-">>) /\ Len(s) = 11
    THEN StrptimeYMDHM(DecString(now.year) \o <<"-">> \o s).exc
    ELSE IF Contains(s, <<"-">>) /\ Len(s) = 16 THEN StrptimeYMDHM(s).exc
    ELSE FALSE

IsInstant(v) ==
    /\ DOMAIN v = {"day", "min", "sec"}
    /\ v.day \in 1..MaxOrdinal
    /\ v.min \in 0..1439
    /\ v.sec \in 0..59

\* C10: parse_weibo_time never raises and returns an instant or None; it
\* returns None for the empty string, for the 'unknown time' literal, for a
\* string of none of the six patterns and for a pattern whose numeric part
\* does not parse.
C10_ParseIsTotal ==
    (mode = "parse" /\ pc = "parsed") =>
        /\ ~parsed.raised
        /\ parsed.value = None \/ IsInstant(parsed.value)
        /\ ( \/ Strip(time_str) = <<>>
             \/ Strip(time_str) = WeiZhiShiJian
             \/ ~Recognized(Strip(time_str))
             \/ NumericPartFails(Strip(time_str)) ) => parsed.value = None

\* A string of a recognized pattern whose number does not parse gave None.
C10_Witness ==
    /\ mode = "parse" /\ pc = "parsed"
    /\ Recognized(Strip(time_str))
    /\ NumericPartFails(Strip(time_str))
    /\ parsed.value = None
    /\ ~parsed.raised

====
